---- MODULE Spec2Model ----
(***************************************************************************)
(* Model of number_plate1.py: a FastAPI application with one POST /analyze *)
(* endpoint (handle_analysis_request), the adapter it awaits               *)
(* (analyze_vehicle_image) and the GET / health check (read_root).         *)
(*                                                                         *)
(* Texts are sequences of one-character strings, so that str.strip() and   *)
(* the == comparisons of the handler are computed character by character.  *)
(* All coroutines run on the single thread of one event loop: a coroutine  *)
(* runs until its next await that really suspends, or until it returns.    *)
(***************************************************************************)
EXTENDS Integers, Sequences, FiniteSets, TLC

\* ------------------------------------------------------------------ bounds

\* Number of HTTP requests in flight in the concurrent workload.
NumRequests == 3
\* Longest run of whitespace the external model puts before/after its reply.
MaxPad == 1
\* Longest uploaded byte string.
MaxBytes == 2

Requests == 1..NumRequests

\* ------------------------------------------------------------------ texts

\* The characters str.strip() removes: those for which str.isspace() holds.
\* A character without a TLA+ escape is written as its code point.
Whitespace ==
    { "\t", "\n", "U+000B", "\f", "\r", "U+001C", "U+001D", "U+001E", "U+001F",
      " ", "U+0085", "U+00A0", "U+1680", "U+2000", "U+2001", "U+2002", "U+2003",
      "U+2004", "U+2005", "U+2006", "U+2007", "U+2008", "U+2009", "U+200A",
      "U+2028", "U+2029", "U+202F", "U+205F", "U+3000" }

NO_VEHICLE_FOUND ==
    <<"N","O","_","V","E","H","I","C","L","E","_","F","O","U","N","D">>

PLATE_UNREADABLE ==
    <<"P","L","A","T","E","_","U","N","R","E","A","D","A","B","L","E">>

\* Bodies of replies the external model can give: the two sentinels, a plate,
\* sentinels in another letter case or with an extra character, a plate with
\* whitespace inside, a sentinel behind a zero-width space (U+200B, which is
\* no whitespace for str.isspace()), and nothing at all.
ReplyCores ==
    { NO_VEHICLE_FOUND,
      PLATE_UNREADABLE,
      <<"M","H","1","2","A","B","3","4","5","6">>,
      <<"n","o","_","v","e","h","i","c","l","e","_","f","o","u","n","d">>,
      <<"P","l","a","t","e","_","U","n","r","e","a","d","a","b","l","e">>,
      PLATE_UNREADABLE \o <<".">>,
      <<"M","H"," ","1","2">>,
      <<"U+200B">> \o NO_VEHICLE_FOUND,
      << >> }

RECURSIVE SeqsUpTo(_, _)
\* All sequences over S of length at most n.
SeqsUpTo(S, n) ==
    IF n = 0 THEN { << >> }
    ELSE LET shorter == SeqsUpTo(S, n - 1)
         IN  shorter \cup { Append(s, c) : s \in shorter, c \in S }

\* Whitespace the external model puts around its reply: blank, CR, LF and
\* no-break space.
PadChars == {" ", "\r", "\n", "U+00A0"}
Pads == SeqsUpTo(PadChars, MaxPad)

\* Every text response.text can be in the single-request workload.
ReplyTexts == { pre \o core \o post : pre \in Pads, core \in ReplyCores, post \in Pads }

\* The texts of the concurrent workload.
ConcurrentTexts ==
    { <<" ">> \o NO_VEHICLE_FOUND \o <<"\r", "\n">>,
      PLATE_UNREADABLE,
      <<"M","H","1","2","A","B","3","4","5","6">> \o <<"\n">> }

\* Ways the try block of analyze_vehicle_image fails after the image decoded.
ExternalFailures == {"network", "auth", "quota", "malformed_reply"}
ConcurrentFailures == {"network", "quota"}
DecodeFailure == "cannot identify image file"

\* ------------------------------------------------------------------ uploads

\* First byte of a file PIL recognises; every other first byte is no image.
ImageMagic == "P"
Uploads == SeqsUpTo({ImageMagic, "x"}, MaxBytes)
ConcurrentUploads == { << >>, <<ImageMagic>> }

\* PIL.Image.open(io.BytesIO(image_bytes)) succeeds.
PIL_Image_open(image_bytes) ==
    Len(image_bytes) > 0 /\ image_bytes[1] = ImageMagic

\* ------------------------------------------------------------------ pure code

RECURSIVE lstrip(_)
lstrip(s) ==
    IF Len(s) > 0 /\ s[1] \in Whitespace THEN lstrip(Tail(s)) ELSE s

RECURSIVE rstrip(_)
rstrip(s) ==
    IF Len(s) > 0 /\ s[Len(s)] \in Whitespace
    THEN rstrip(SubSeq(s, 1, Len(s) - 1))
    ELSE s

\* Mutant of strip: an all-whitespace text is left as it is.
strip_keeps_blank(s) == IF rstrip(lstrip(s)) = << >> THEN s ELSE rstrip(lstrip(s))

\* str.strip(): leading and trailing whitespace removed, the rest untouched.
strip(s) == rstrip(lstrip(s))

\* The value analyze_vehicle_image returns for a reply: response.text.strip().
clean_text(text) == strip(text)

ToUpper(c) ==
    CASE c = "n" -> "N" [] c = "o" -> "O" [] c = "v" -> "V" [] c = "e" -> "E"
      [] c = "h" -> "H" [] c = "i" -> "I" [] c = "c" -> "C" [] c = "l" -> "L"
      [] c = "f" -> "F" [] c = "u" -> "U" [] c = "d" -> "D" [] c = "a" -> "A"
      [] c = "t" -> "T" [] c = "r" -> "R" [] c = "b" -> "B"
      [] OTHER -> c

upper(s) == [i \in 1..Len(s) |-> ToUpper(s[i])]

MSG_NO_VEHICLE == "The uploaded image does not appear to contain a vehicle."
MSG_UNREADABLE == "A vehicle was found, but the license plate could not be read."
MSG_SUCCESS == "Successfully extracted vehicle number."

\* Mutant of response_data: the sentinels are compared ignoring letter case.
response_data_ignoring_case(result_text) ==
    IF upper(result_text) = NO_VEHICLE_FOUND
    THEN [code |-> "NO_VEHICLE", message |-> MSG_NO_VEHICLE]
    ELSE IF upper(result_text) = PLATE_UNREADABLE
    THEN [code |-> "PLATE_UNREADABLE", message |-> MSG_UNREADABLE]
    ELSE [code |-> "SUCCESS", message |-> MSG_SUCCESS,
          vehicle_number |-> result_text]

\* Mutant of response_data: vehicle_number is set before the branches.
response_data_always_number(result_text) ==
    IF result_text = NO_VEHICLE_FOUND
    THEN [code |-> "NO_VEHICLE", message |-> MSG_NO_VEHICLE,
          vehicle_number |-> result_text]
    ELSE IF result_text = PLATE_UNREADABLE
    THEN [code |-> "PLATE_UNREADABLE", message |-> MSG_UNREADABLE,
          vehicle_number |-> result_text]
    ELSE [code |-> "SUCCESS", message |-> MSG_SUCCESS,
          vehicle_number |-> result_text]

\* The dictionary handle_analysis_request builds from result_text.
response_data(result_text) ==
    IF result_text = NO_VEHICLE_FOUND
    THEN [code |-> "NO_VEHICLE", message |-> MSG_NO_VEHICLE]
    ELSE IF result_text = PLATE_UNREADABLE
    THEN [code |-> "PLATE_UNREADABLE", message |-> MSG_UNREADABLE]
    ELSE [code |-> "SUCCESS", message |-> MSG_SUCCESS,
          vehicle_number |-> result_text]

\* JSONResponse(content=response_data): status 200, the dictionary as body.
JSONResponse(content) == [status |-> 200, body |-> content]

\* read_root's answer.
HealthResponse ==
    [status |-> 200, body |-> [status |-> "Vehicle Analysis API is running."]]

\* ------------------------------------------------------------------ errors

\* Mutant of HTTPException_500: detail=str(e), a JSON string.
HTTPException_500_str(e) == [status_code |-> 500, detail |-> [str |-> e]]

\* HTTPException(status_code=500, detail=e): the detail is the exception
\* object itself, not its text.
HTTPException_500(e) == [status_code |-> 500, detail |-> [exception |-> e]]

\* The line analyze_vehicle_image prints for exception e.
log_line(e) == <<"An error occurred during Gemini analysis: ", e>>

\* What the client receives for a raised HTTPException: the framework answers
\* {"detail": exc.detail} as JSON; a detail JSON cannot encode (an exception
\* object) makes that rendering fail and the server's last-resort handler
\* answers with the plain 500 page.
error_response(exc) ==
    IF "str" \in DOMAIN exc.detail
    THEN [status |-> exc.status_code, body |-> [detail |-> exc.detail.str]]
    ELSE [status |-> 500, body |-> [text |-> "Internal Server Error"]]

\* ------------------------------------------------------------------ state

VARIABLES
    kind,         \* kind[r]: "analyze" (POST /analyze) or "root" (GET /)
    pc,           \* pc[r]: where request r is
    upload,       \* upload[r]: the bytes of the uploaded file
    image_bytes,  \* image_bytes[r]: the handler's local after image.read()
    calls,        \* calls[r]: generate_content calls made for r
    outcome,      \* outcome[r]: how r's generate_content call ended
    result_text,  \* result_text[r]: the handler's local (meaningful on 200)
    handler_result, \* handler_result[r]: what the handler returned or raised
    response,     \* response[r]: what the client of r received
    log           \* the lines printed to the server's stdout

vars ==
    <<kind, pc, upload, image_bytes, calls, outcome, result_text, handler_result,
      response, log>>

NoOutcome == [tag |-> "none"]
NoResult == [tag |-> "none"]
NoResponse == [status |-> 0, body |-> [none |-> TRUE]]

\* The event loop's only thread is inside a handler: generate_content is a
\* plain (non-awaited) call, so from the call until the handler returns no
\* other coroutine is scheduled.
LoopBusy == \E r \in Requests : pc[r] \in {"call", "returned"}

Init ==
    /\ kind = [r \in Requests |-> "analyze"]
    /\ pc = [r \in Requests |-> "idle"]
    /\ upload = [r \in Requests |-> << >>]
    /\ image_bytes = [r \in Requests |-> << >>]
    /\ calls = [r \in Requests |-> 0]
    /\ outcome = [r \in Requests |-> NoOutcome]
    /\ result_text = [r \in Requests |-> << >>]
    /\ handler_result = [r \in Requests |-> NoResult]
    /\ response = [r \in Requests |-> NoResponse]
    /\ log = << >>

\* ------------------------------------------------------------------ actions

\* A client sends POST /analyze with the file bytes b.
ClientSendsAnalyze(r, b) ==
    /\ pc[r] = "idle"
    /\ pc' = [pc EXCEPT ![r] = "queued"]
    /\ kind' = [kind EXCEPT ![r] = "analyze"]
    /\ upload' = [upload EXCEPT ![r] = b]
    /\ UNCHANGED <<image_bytes, calls, outcome, result_text, handler_result, response, log>>

\* A client sends GET /.
ClientSendsRoot(r) ==
    /\ pc[r] = "idle"
    /\ pc' = [pc EXCEPT ![r] = "queued"]
    /\ kind' = [kind EXCEPT ![r] = "root"]
    /\ UNCHANGED <<upload, image_bytes, calls, outcome, result_text, handler_result, response, log>>

\* read_root: the health check answers its fixed status.
read_root(r) ==
    /\ ~LoopBusy
    /\ pc[r] = "queued" /\ kind[r] = "root"
    /\ pc' = [pc EXCEPT ![r] = "done"]
    /\ response' = [response EXCEPT ![r] = HealthResponse]
    /\ UNCHANGED <<kind, upload, image_bytes, calls, outcome, result_text, handler_result, log>>

\* handle_analysis_request starts and suspends at `await image.read()`.
handle_analysis_request(r) ==
    /\ ~LoopBusy
    /\ pc[r] = "queued" /\ kind[r] = "analyze"
    /\ pc' = [pc EXCEPT ![r] = "reading"]
    /\ UNCHANGED <<kind, upload, image_bytes, calls, outcome, result_text, handler_result, response, log>>

\* The read completes, the handler resumes and enters analyze_vehicle_image:
\* the image is opened; if that fails the except clause prints and raises the
\* HTTPException, which ends the handler; otherwise generate_content is called.
analyze_vehicle_image(r) ==
    /\ ~LoopBusy
    /\ pc[r] = "reading"
    /\ image_bytes' = [image_bytes EXCEPT ![r] = upload[r]]
    /\ IF PIL_Image_open(upload[r])
       THEN /\ pc' = [pc EXCEPT ![r] = "call"]
            /\ calls' = [calls EXCEPT ![r] = @ + 1]
            /\ UNCHANGED <<handler_result, log>>
       ELSE /\ pc' = [pc EXCEPT ![r] = "closing"]
            /\ log' = Append(log, log_line(DecodeFailure))
            /\ handler_result' = [handler_result EXCEPT
                  ![r] = [tag |-> "raise", exc |-> HTTPException_500(DecodeFailure)]]
            /\ UNCHANGED calls
    /\ UNCHANGED <<kind, upload, outcome, result_text, response>>

\* The external model answers r's call with a reply whose text is t.
generate_content_returns(r, t) ==
    /\ pc[r] = "call"
    /\ pc' = [pc EXCEPT ![r] = "returned"]
    /\ outcome' = [outcome EXCEPT ![r] = [tag |-> "text", text |-> t]]
    /\ UNCHANGED <<kind, upload, image_bytes, calls, result_text, handler_result, response, log>>

\* r's call (or reading response.text) raises: network, auth, quota, or a
\* reply without usable text.
generate_content_raises(r, e) ==
    /\ pc[r] = "call"
    /\ pc' = [pc EXCEPT ![r] = "returned"]
    /\ outcome' = [outcome EXCEPT ![r] = [tag |-> "error", e |-> e]]
    /\ UNCHANGED <<kind, upload, image_bytes, calls, result_text, handler_result, response, log>>

\* The except clause of analyze_vehicle_image for r's failed call: the line is
\* printed and the HTTPException raised out of the handler.
FailRequest(r) ==
    /\ pc' = [pc EXCEPT ![r] = "closing"]
    /\ log' = Append(log, log_line(outcome[r].e))
    /\ handler_result' = [handler_result EXCEPT
          ![r] = [tag |-> "raise", exc |-> HTTPException_500(outcome[r].e)]]
    /\ UNCHANGED <<kind, upload, image_bytes, calls, outcome, result_text, response>>

\* The rest of the handler for the text t the adapter returned, up to its
\* return statement.
AnswerRequest(r, t) ==
    /\ pc' = [pc EXCEPT ![r] = "closing"]
    /\ result_text' = [result_text EXCEPT ![r] = t]
    /\ handler_result' = [handler_result EXCEPT
          ![r] = [tag |-> "return", value |-> JSONResponse(response_data(t))]]
    /\ UNCHANGED <<kind, upload, image_bytes, calls, outcome, response, log>>

\* Mutant of finish_request: a failed call is retried once.
finish_request_retrying(r) ==
    /\ pc[r] = "returned"
    /\ IF outcome[r].tag = "text"
       THEN AnswerRequest(r, clean_text(outcome[r].text))
       ELSE IF calls[r] < 2
       THEN /\ pc' = [pc EXCEPT ![r] = "call"]
            /\ calls' = [calls EXCEPT ![r] = @ + 1]
            /\ outcome' = [outcome EXCEPT ![r] = NoOutcome]
            /\ UNCHANGED <<kind, upload, image_bytes, result_text, handler_result, response, log>>
       ELSE FailRequest(r)

\* Mutant of finish_request: the except clause returns a sentinel instead of
\* raising.
finish_request_swallowing(r) ==
    /\ pc[r] = "returned"
    /\ IF outcome[r].tag = "text"
       THEN AnswerRequest(r, clean_text(outcome[r].text))
       ELSE /\ pc' = [pc EXCEPT ![r] = "closing"]
            /\ log' = Append(log, log_line(outcome[r].e))
            /\ result_text' = [result_text EXCEPT ![r] = PLATE_UNREADABLE]
            /\ handler_result' = [handler_result EXCEPT
                  ![r] = [tag |-> "return",
                          value |-> JSONResponse(response_data(PLATE_UNREADABLE))]]
            /\ UNCHANGED <<kind, upload, image_bytes, calls, outcome, response>>

\* Mutant of finish_request: the reply is kept in a module-level variable, so
\* the handler may see the reply another request stored there.
finish_request_shared_reply(r) ==
    /\ pc[r] = "returned"
    /\ IF outcome[r].tag = "text"
       THEN \E q \in Requests :
               /\ outcome[q].tag = "text"
               /\ AnswerRequest(r, clean_text(outcome[q].text))
       ELSE FailRequest(r)

\* Mutant of finish_request: response_data is a module-level dictionary that
\* is not emptied, so a vehicle_number of an earlier answer stays in it.
finish_request_stale_dict(r) ==
    /\ pc[r] = "returned"
    /\ IF outcome[r].tag = "text"
       THEN LET t == clean_text(outcome[r].text)
                fresh == response_data(t)
                stale == { q \in Requests :
                             /\ handler_result[q].tag = "return"
                             /\ "vehicle_number" \in DOMAIN handler_result[q].value.body }
                old == handler_result[CHOOSE q \in stale : TRUE].value.body
            IN  /\ pc' = [pc EXCEPT ![r] = "closing"]
                /\ result_text' = [result_text EXCEPT ![r] = t]
                /\ handler_result' = [handler_result EXCEPT ![r] =
                      [tag |-> "return",
                       value |->
                          IF stale # {} /\ "vehicle_number" \notin DOMAIN fresh
                          THEN JSONResponse(
                                 [code |-> fresh.code, message |-> fresh.message,
                                  vehicle_number |-> old.vehicle_number])
                          ELSE JSONResponse(fresh)]]
                /\ UNCHANGED <<kind, upload, image_bytes, calls, outcome, response, log>>
       ELSE FailRequest(r)

\* generate_content has come back: on a reply the adapter returns
\* response.text.strip() and the handler classifies it and returns its
\* JSONResponse; on an exception the except clause prints it and raises the
\* HTTPException.  All of it is synchronous.
finish_request(r) ==
    /\ pc[r] = "returned"
    /\ IF outcome[r].tag = "text"
       THEN AnswerRequest(r, clean_text(outcome[r].text))
       ELSE FailRequest(r)

\* The handler has ended; the framework closes the uploaded file (an await
\* that gives the event loop to other requests) and then sends what the
\* handler returned, or the rendering of what it raised, to the client.
send_response(r) ==
    /\ ~LoopBusy
    /\ pc[r] = "closing"
    /\ pc' = [pc EXCEPT ![r] = "done"]
    /\ response' = [response EXCEPT ![r] =
          IF handler_result[r].tag = "raise"
          THEN error_response(handler_result[r].exc)
          ELSE handler_result[r].value]
    /\ UNCHANGED <<kind, upload, image_bytes, calls, outcome, result_text, handler_result, log>>

\* ------------------------------------------------------------------ specifications

\* The steps of requests R with uploads U, reply texts T and failures F.
Step(R, U, T, F) ==
    \E r \in R :
        \/ \E b \in U : ClientSendsAnalyze(r, b)
        \/ ClientSendsRoot(r)
        \/ read_root(r)
        \/ handle_analysis_request(r)
        \/ analyze_vehicle_image(r)
        \/ \E t \in T : generate_content_returns(r, t)
        \/ \E e \in F : generate_content_raises(r, e)
        \/ finish_request(r)
        \/ send_response(r)

\* Concurrent workload: NumRequests requests, a few uploads and replies.
Next == Step(Requests, ConcurrentUploads, ConcurrentTexts, ConcurrentFailures)

Spec == Init /\ [][Next]_vars

\* The same with the scheduling the code has: a handler whose call has come
\* back runs on (the code after generate_content is synchronous), and the
\* event loop, whenever its thread is free, runs what is ready.  The external
\* model is under no obligation to answer.
FairSpec ==
    /\ Spec
    /\ \A r \in Requests :
          /\ WF_vars(finish_request(r))
          /\ WF_vars(send_response(r))
          /\ WF_vars(handle_analysis_request(r))
          /\ WF_vars(analyze_vehicle_image(r))
          /\ WF_vars(read_root(r))

\* Single-request workload: one request, every upload and every reply.
NextSingle == Step({1}, Uploads, ReplyTexts, ExternalFailures)

SpecSingle == Init /\ [][NextSingle]_vars

\* ------------------------------------------------------------------ vocabulary of the claims

\* r is a POST /analyze request that has been answered.
Answered(r) == pc[r] = "done" /\ kind[r] = "analyze"

\* r's adapter call failed: the image did not open, or generate_content raised.
AdapterFailed(r) ==
    Answered(r) /\ (outcome[r].tag = "error" \/ ~PIL_Image_open(image_bytes[r]))

\* r's adapter call returned a text.
AdapterReturned(r) == Answered(r) /\ outcome[r].tag = "text"

\* The exception r's adapter call caught.
FailureOf(r) == IF outcome[r].tag = "error" THEN outcome[r].e ELSE DecodeFailure

AllWhitespace(s) == \A i \in 1..Len(s) : s[i] \in Whitespace

\* t is raw without a whitespace-only prefix and a whitespace-only suffix,
\* and t itself neither starts nor ends with whitespace.
IsTrimOf(t, raw) ==
    \E i \in 0..Len(raw), j \in 0..Len(raw) :
        /\ i + j <= Len(raw)
        /\ t = SubSeq(raw, i + 1, Len(raw) - j)
        /\ AllWhitespace(SubSeq(raw, 1, i))
        /\ AllWhitespace(SubSeq(raw, Len(raw) - j + 1, Len(raw)))
        /\ (t = << >> \/ (t[1] \notin Whitespace /\ t[Len(t)] \notin Whitespace))

\* Everything of the state that belongs to request r.
Local(r) ==
    <<kind[r], pc[r], upload[r], image_bytes[r], calls[r], outcome[r],
      result_text[r], handler_result[r], response[r]>>

\* A step q can take on the event loop: being dispatched, resumed or answered.
Progress(q) ==
    \/ read_root(q)
    \/ handle_analysis_request(q)
    \/ analyze_vehicle_image(q)
    \/ send_response(q)

\* ------------------------------------------------------------------ claims

\* C1: every text the external model returns gets exactly one of the three
\* codes, decided by case-sensitive equality on the whitespace-trimmed reply:
\* NO_VEHICLE (with its message) iff the trimmed reply is "NO_VEHICLE_FOUND",
\* PLATE_UNREADABLE (with its message) iff it is "PLATE_UNREADABLE", and
\* SUCCESS (with its message) for every other trimmed reply.
C1_Classification ==
    \A r \in Requests :
        AdapterReturned(r) =>
            /\ response[r].status = 200
            /\ IsTrimOf(result_text[r], outcome[r].text)
            /\ LET t == result_text[r]
                   b == response[r].body
               IN  /\ b.code \in {"NO_VEHICLE", "PLATE_UNREADABLE", "SUCCESS"}
                   /\ b.code = "NO_VEHICLE" <=> t = NO_VEHICLE_FOUND
                   /\ b.code = "PLATE_UNREADABLE" <=> t = PLATE_UNREADABLE
                   /\ b.code = "SUCCESS" <=> t \notin {NO_VEHICLE_FOUND, PLATE_UNREADABLE}
                   /\ b.code = "NO_VEHICLE" =>
                        b.message = "The uploaded image does not appear to contain a vehicle."
                   /\ b.code = "PLATE_UNREADABLE" =>
                        b.message = "A vehicle was found, but the license plate could not be read."
                   /\ b.code = "SUCCESS" =>
                        b.message = "Successfully extracted vehicle number."

\* C1 witness: the sentinel between a no-break space and a carriage return
\* was answered NO_VEHICLE.
C1_Witness ==
    \E r \in Requests :
        /\ AdapterReturned(r)
        /\ outcome[r].text = <<"U+00A0">> \o NO_VEHICLE_FOUND \o <<"\r">>
        /\ response[r].body.code = "NO_VEHICLE"

\* C2: vehicle_number is in the payload iff code is SUCCESS, and is then the
\* trimmed reply character for character; the other two payloads hold only
\* code and message.
C2_VehicleNumber ==
    \A r \in Requests :
        (Answered(r) /\ response[r].status = 200) =>
            LET b == response[r].body
            IN  /\ "vehicle_number" \in DOMAIN b <=> b.code = "SUCCESS"
                /\ b.code = "SUCCESS" =>
                     /\ b.vehicle_number = result_text[r]
                     /\ IsTrimOf(b.vehicle_number, outcome[r].text)
                /\ b.code # "SUCCESS" => DOMAIN b = {"code", "message"}

\* C2 witness: a padded plate was answered with the plate alone.
C2_Witness ==
    \E r \in Requests :
        /\ Answered(r)
        /\ outcome[r] = [tag |-> "text",
                         text |-> <<"U+00A0","M","H","1","2","A","B","3","4","5","6","\r">>]
        /\ response[r].body.code = "SUCCESS"
        /\ response[r].body.vehicle_number = <<"M","H","1","2","A","B","3","4","5","6">>

\* C3: a POST /analyze ends with 200 and a payload exactly when the adapter
\* returned a reply, and with 500 and no payload exactly when it failed
\* (image decode error or failed external call).
C3_StatusByOutcome ==
    \A r \in Requests :
        Answered(r) =>
            /\ response[r].status \in {200, 500}
            /\ response[r].status = 200 <=> outcome[r].tag = "text"
            /\ response[r].status = 500 <=>
                 (outcome[r].tag = "error" \/ ~PIL_Image_open(image_bytes[r]))
            /\ "code" \in DOMAIN response[r].body <=> response[r].status = 200

\* C3 witness: a request whose external call failed was answered 500.
C3_Witness ==
    \E r \in Requests :
        /\ Answered(r)
        /\ outcome[r].tag = "error"
        /\ response[r].status = 500

\* C4: while one request waits for the external model, every other request
\* that has been sent and not answered can take its next step.
C4_OthersProgress ==
    \A r, q \in Requests :
        (r # q /\ pc[r] = "call" /\ pc[q] \in {"queued", "reading", "closing"}) =>
            ENABLED Progress(q)

\* C5: the external model is called at most once per request, and a failed
\* call is followed directly by the 500 outcome, with no further call: the
\* handler ends raising the 500 error and the request is then answered 500.
C5_NoRetry ==
    /\ [](\A r \in Requests : calls[r] <= 1)
    /\ [][\A r \in Requests :
            /\ (pc[r] = "returned" /\ outcome[r].tag = "error" /\ pc'[r] # pc[r]) =>
                  /\ pc'[r] = "closing"
                  /\ handler_result'[r].tag = "raise"
                  /\ handler_result'[r].exc.status_code = 500
                  /\ calls'[r] = calls[r]
            /\ (pc[r] = "closing" /\ outcome[r].tag = "error" /\ pc'[r] # pc[r]) =>
                  /\ pc'[r] = "done"
                  /\ response'[r].status = 500
                  /\ calls'[r] = calls[r]]_vars

\* C5 witness: a request was answered 500 after its one call failed.
C5_Witness ==
    \E r \in Requests :
        /\ AdapterFailed(r)
        /\ outcome[r] = [tag |-> "error", e |-> "quota"]
        /\ calls[r] = 1
        /\ response[r].status = 500

\* C6: requests that fail for different causes get identical responses, and
\* the exception's content is in the server's log and not in the response.
C6_UniformError ==
    /\ \A r, q \in Requests :
          (AdapterFailed(r) /\ AdapterFailed(q)) => response[r] = response[q]
    /\ \A r \in Requests :
          AdapterFailed(r) =>
              /\ \A f \in DOMAIN response[r].body : response[r].body[f] # FailureOf(r)
              /\ \E i \in 1..Len(log) : log[i][2] = FailureOf(r)

\* C6 witness: one request failed to decode, another failed on the network.
C6_Witness ==
    \E r, q \in Requests :
        /\ AdapterFailed(r) /\ outcome[r].tag = "none"
        /\ AdapterFailed(q) /\ outcome[q] = [tag |-> "error", e |-> "network"]
        /\ response[r] = response[q]

\* C7: each response depends only on the request's own upload and the reply
\* to its own call: equal own inputs give equal responses, a returned
\* vehicle_number is the trim of the request's own reply, and a step of one
\* request changes nothing that belongs to another.
C7_Independence ==
    /\ [](\A r, q \in Requests :
            (Answered(r) /\ Answered(q) /\ upload[r] = upload[q]
                /\ outcome[r] = outcome[q]) => response[r] = response[q])
    /\ [](\A r \in Requests :
            (Answered(r) /\ "vehicle_number" \in DOMAIN response[r].body) =>
                /\ outcome[r].tag = "text"
                /\ IsTrimOf(response[r].body.vehicle_number, outcome[r].text))
    /\ [][\A r, q \in Requests :
            (r # q /\ pc'[r] # pc[r]) => Local(q)' = Local(q)]_vars

\* C7 witness: two requests were answered with different codes while a third
\* is suspended reading its upload.
C7_Witness ==
    \E r, q, s \in Requests :
        /\ AdapterReturned(r) /\ response[r].body.code = "SUCCESS"
        /\ AdapterReturned(q) /\ response[q].body.code = "NO_VEHICLE"
        /\ pc[s] = "reading"

\* C8: equal adapter replies give identical payloads, whatever other
\* requests were handled and however they ended.
C8_Idempotence ==
    \A r, q \in Requests :
        (AdapterReturned(r) /\ AdapterReturned(q) /\ result_text[r] = result_text[q]) =>
            response[r].body = response[q].body

\* C8 witness: two requests with the same reply were answered alike, and
\* another request failed.
C8_Witness ==
    \E r, q, s \in Requests :
        /\ r # q
        /\ AdapterReturned(r) /\ AdapterReturned(q)
        /\ result_text[r] = result_text[q]
        /\ response[r].body = response[q].body
        /\ AdapterFailed(s)

\* C9: a request whose image decoded is answered only after its external
\* call returned or raised, leaves the call only through that, is answered
\* once, and is answered (200 or 500) once the call has come back.
C9_NoTimeout ==
    /\ [](\A r \in Requests :
            (Answered(r) /\ PIL_Image_open(image_bytes[r])) => outcome[r].tag # "none")
    /\ [](\A r \in Requests : pc[r] = "call" => response[r] = NoResponse)
    /\ [][\A r \in Requests :
            /\ (pc[r] = "call" /\ pc'[r] # "call") => outcome'[r].tag # "none"
            /\ response[r] # NoResponse => response'[r] = response[r]]_vars
    /\ \A r \in Requests :
          (pc[r] = "returned") ~> (pc[r] = "done" /\ response[r].status \in {200, 500})

\* The part of C9 that forbids an answer before the external call has come
\* back, and a second answer.
C9_OnlyAfterCall ==
    /\ [](\A r \in Requests :
            (Answered(r) /\ PIL_Image_open(image_bytes[r])) => outcome[r].tag # "none")
    /\ [](\A r \in Requests : pc[r] = "call" => response[r] = NoResponse)
    /\ [][\A r \in Requests :
            /\ (pc[r] = "call" /\ pc'[r] # "call") => outcome'[r].tag # "none"
            /\ response[r] # NoResponse => response'[r] = response[r]]_vars

\* C10: an empty or all-whitespace reply is answered 200 with code SUCCESS
\* and the empty string as vehicle_number.
C10_EmptyReply ==
    \A r \in Requests :
        (AdapterReturned(r) /\ AllWhitespace(outcome[r].text)) =>
            /\ result_text[r] = << >>
            /\ response[r] =
                 [status |-> 200,
                  body |-> [code |-> "SUCCESS",
                            message |-> "Successfully extracted vehicle number.",
                            vehicle_number |-> << >>]]

\* C10 witness: a reply of a CR and a newline was answered.
C10_Witness ==
    \E r \in Requests :
        /\ AdapterReturned(r)
        /\ outcome[r].text = <<"\r", "\n">>
        /\ response[r].status = 200

====
